---------------------------- MODULE Spec2Model ----------------------------
(***************************************************************************)
(* pipfile-diff (main.py): parse Pipfile.lock at the base and the head     *)
(* revision of a pull request, diff the two dependency mappings, render a  *)
(* marked message and create or update the pull request comment.           *)
(*                                                                         *)
(* Python strings are TLA+ strings (TLC evaluates Len, SubSeq and \o on    *)
(* them).  The TLA+ lexer has no backtick inside a string literal, so the  *)
(* character U+0060 of the message template is written as an apostrophe.   *)
(* Python dicts are functions whose DOMAIN is the key set; dict equality   *)
(* is function equality.                                                   *)
(***************************************************************************)
EXTENDS Integers, Sequences, FiniteSets, TLC

\* ------------------------------------------------------------------ bounds
\* Number of dependency names the inputs range over.
MaxNames == 2
\* Length of the comment list the pull request starts with.
MaxInitComments == 2

NameList == <<"foo", "bar", "baz", "qux">>
Names == {NameList[i] : i \in 1..MaxNames}

\* ------------------------------------------------------- string primitives
\* str.startswith
StartsWith(s, p) == Len(s) >= Len(p) /\ SubSeq(s, 1, Len(p)) = p

\* Mutant: strips every leading repetition of p, as lstrip would.
RECURSIVE removeprefix_all(_, _)
removeprefix_all(s, p) ==
    IF Len(p) > 0 /\ Len(s) >= Len(p) /\ SubSeq(s, 1, Len(p)) = p
    THEN removeprefix_all(SubSeq(s, Len(p) + 1, Len(s)), p) ELSE s

\* str.removeprefix: drops ONE leading occurrence of p
removeprefix(s, p) == IF StartsWith(s, p) THEN SubSeq(s, Len(p) + 1, Len(s)) ELSE s

\* the slice s[:n]
Slice(s, n) == SubSeq(s, 1, IF Len(s) < n THEN Len(s) ELSE n)

\* Characters of the model's strings in code point order (the apostrophe at
\* the place of U+0060); the position of a character stands for ord(c).
CodePoints == "\n !#*-.0123456789<=>GLMT_'abcdefghijklmnopqrstuvwxyz"
ord(c) == CHOOSE i \in 1..Len(CodePoints) : SubSeq(CodePoints, i, i) = c

\* str.__lt__: lexicographic by code point, a proper prefix is smaller
RECURSIVE StrLess(_, _)
StrLess(a, b) ==
    IF Len(b) = 0 THEN FALSE
    ELSE IF Len(a) = 0 THEN TRUE
    ELSE IF SubSeq(a, 1, 1) # SubSeq(b, 1, 1)
         THEN ord(SubSeq(a, 1, 1)) < ord(SubSeq(b, 1, 1))
         ELSE StrLess(SubSeq(a, 2, Len(a)), SubSeq(b, 2, Len(b)))

\* sorted(set of str): ascending list
RECURSIVE sorted(_)
sorted(S) ==
    IF S = {} THEN <<>>
    ELSE LET m == CHOOSE x \in S : \A y \in S \ {x} : StrLess(x, y)
         IN  <<m>> \o sorted(S \ {m})

\* sep.join(list)
RECURSIVE join(_, _)
join(sep, l) ==
    IF Len(l) = 0 THEN ""
    ELSE IF Len(l) = 1 THEN l[1]
    ELSE l[1] \o sep \o join(sep, Tail(l))

IsSpace(c) == c \in {" ", "\n"}

\* str.strip: drops leading and trailing whitespace
RECURSIVE lstrip(_)
lstrip(s) == IF Len(s) > 0 /\ IsSpace(SubSeq(s, 1, 1)) THEN lstrip(SubSeq(s, 2, Len(s))) ELSE s
RECURSIVE rstrip(_)
rstrip(s) == IF Len(s) > 0 /\ IsSpace(SubSeq(s, Len(s), Len(s))) THEN rstrip(SubSeq(s, 1, Len(s) - 1)) ELSE s
strip(s) == rstrip(lstrip(s))

\* ----------------------------------------------------------- Pipfile.lock
EmptyDict == [k \in {} |-> ""]

\* What open('Pipfile.lock') / json.loads find in the working tree.
MissingFile == [kind |-> "missing", data |-> EmptyDict]
InvalidFile == [kind |-> "invalid", data |-> EmptyDict]
JsonFile(d) == [kind |-> "json", data |-> d]

\* Entries (the `meta` dicts): version and ref are both optional.
VersionFields == {"==1.0.0", "2.0.0", "====3"}
RefFields == {"0123456789abcdef", "abc"}
Metas ==
    {[version |-> v] : v \in VersionFields}
    \cup {[ref |-> r] : r \in RefFields}
    \cup {[version |-> "==1.0.0", ref |-> "0123456789abcdef"]}
    \cup {EmptyDict}

Groups == UNION {[S -> Metas] : S \in SUBSET Names}

\* JSON documents: the two groups, or a document lacking one of them.
Documents ==
    [default : Groups, develop : Groups]
    \cup {[default |-> EmptyDict], [develop |-> EmptyDict], EmptyDict}

LockFiles == {MissingFile, InvalidFile} \cup {JsonFile(d) : d \in Documents}

\* main.py:20-23, the value stored for one entry
EntryValue(meta) ==
    IF "version" \notin DOMAIN meta /\ "ref" \in DOMAIN meta
    THEN Slice(meta["ref"], 7)
    ELSE removeprefix(meta["version"], "==")

\* main.py:23 raises KeyError when the else branch finds no version
EntryRaises(meta) ==
    ~("version" \notin DOMAIN meta /\ "ref" \in DOMAIN meta) /\ "version" \notin DOMAIN meta

\* main.py:19-23, one pass of the inner loop over a group: deps[name] = ...
UpdateDeps(deps, group) ==
    [n \in DOMAIN deps \cup DOMAIN group |->
        IF n \in DOMAIN group THEN EntryValue(group[n]) ELSE deps[n]]

\* Mutant: the groups walked in the other order.
DTypes_reversed == <<"develop", "default">>

\* The groups in the order main.py:18 walks them.
DTypes == <<"default", "develop">>

\* main.py:9-24 raises: missing file, invalid JSON, missing group, bad entry
ParseRaises(file) ==
    \/ file.kind # "json"
    \/ \E i \in 1..Len(DTypes) :
         \/ DTypes[i] \notin DOMAIN file.data
         \/ \E n \in DOMAIN file.data[DTypes[i]] : EntryRaises(file.data[DTypes[i]][n])

\* main.py:9-24, the returned dict (when nothing raises)
parse_pipfile_lock(file) ==
    UpdateDeps(UpdateDeps(EmptyDict, file.data[DTypes[1]]), file.data[DTypes[2]])

\* ------------------------------------------------------------ Diff Engine
\* Mutant: the membership test on base dropped.
get_added_deps_all(base, head) == [k \in DOMAIN head |-> head[k]]

\* main.py:27-35
get_added_deps(base, head) ==
    [k \in {n \in DOMAIN head : n \notin DOMAIN base} |-> head[k]]

\* Mutant: the version comparison dropped.
get_changed_deps_nocompare(base, head) ==
    IF DOMAIN base = {} THEN EmptyDict
    ELSE [name \in {n \in DOMAIN base : n \in DOMAIN head} |->
            [base |-> base[name], head |-> head[name]]]

\* main.py:38-55
get_changed_deps(base, head) ==
    IF DOMAIN base = {} THEN EmptyDict
    ELSE [name \in {n \in DOMAIN base : n \in DOMAIN head /\ base[n] # head[n]} |->
            [base |-> base[name], head |-> head[name]]]

\* Mutant: the membership test inverted.
get_removed_deps_inverted(base, head) ==
    [k \in {n \in DOMAIN base : n \in DOMAIN head} |-> base[k]]

\* main.py:58-66
get_removed_deps(base, head) ==
    [k \in {n \in DOMAIN base : n \notin DOMAIN head} |-> base[k]]

\* -------------------------------------------------------- Message Renderer
Marker == "<!-- pipfile-diff -->"
Preamble == Marker \o "\n\nDependency changes from 'Pipfile.lock':\n\n"

\* main.py:81,84,87: one section, title line, fence, stripped text, fence
Section(title, lines) ==
    "**" \o title \o "**\n'''\n" \o strip(join("\n", sorted(lines))) \o "\n'''\n"

ChangedLines(changed) ==
    {k \o " " \o changed[k].base \o " => " \o changed[k].head : k \in DOMAIN changed}
PinLines(deps) == {k \o "==" \o deps[k] : k \in DOMAIN deps}

\* Mutant: the Added block placed before the Changed block.
generate_message_reordered(changed, added, removed) ==
    Preamble
    \o (IF DOMAIN added # {} THEN Section("Added", PinLines(added)) ELSE "")
    \o (IF DOMAIN changed # {} THEN Section("Changed", ChangedLines(changed)) ELSE "")
    \o (IF DOMAIN removed # {} THEN Section("Removed", PinLines(removed)) ELSE "")

\* main.py:69-89
generate_message(changed, added, removed) ==
    Preamble
    \o (IF DOMAIN changed # {} THEN Section("Changed", ChangedLines(changed)) ELSE "")
    \o (IF DOMAIN added # {} THEN Section("Added", PinLines(added)) ELSE "")
    \o (IF DOMAIN removed # {} THEN Section("Removed", PinLines(removed)) ELSE "")

\* ---------------------------------------------------- Comment Upsert Client
\* Mutant: the loop without its break, keeping the last match.
ExistingIssueId_last(cs) ==
    IF \E i \in 1..Len(cs) : StartsWith(cs[i].body, Marker)
    THEN cs[CHOOSE i \in 1..Len(cs) :
                /\ StartsWith(cs[i].body, Marker)
                /\ \A j \in (i + 1)..Len(cs) : ~StartsWith(cs[j].body, Marker)].id
    ELSE 0

\* main.py:109-113: id of the first comment whose body starts with the
\* marker, None (0 here: ids are positive) when there is none
ExistingIssueId(cs) ==
    IF \E i \in 1..Len(cs) : StartsWith(cs[i].body, Marker)
    THEN cs[CHOOSE i \in 1..Len(cs) :
                /\ StartsWith(cs[i].body, Marker)
                /\ \A j \in 1..(i - 1) : ~StartsWith(cs[j].body, Marker)].id
    ELSE 0

\* The host gives a new comment an identifier larger than every earlier one.
RECURSIVE MaxId(_)
MaxId(cs) ==
    IF Len(cs) = 0 THEN 0
    ELSE LET m == MaxId(Tail(cs)) IN IF cs[1].id > m THEN cs[1].id ELSE m

\* Mutant: the existing comment is never looked for.
Upsert_always_create(cs, message) ==
    Append(cs, [id |-> MaxId(cs) + 1, body |-> message])

\* main.py:116-120: the comment list after the edit or the create
Upsert(cs, message) ==
    LET existing_issue_id == ExistingIssueId(cs) IN
    IF existing_issue_id # 0
    THEN [i \in 1..Len(cs) |->
            IF cs[i].id = existing_issue_id
            THEN [id |-> cs[i].id, body |-> message] ELSE cs[i]]
    ELSE Append(cs, [id |-> MaxId(cs) + 1, body |-> message])

\* ------------------------------------------------------------- state
VARIABLES
    pc,            \* position of run(): the statement about to execute
    revs,          \* Pipfile.lock at the base and at the head revision
    tree,          \* Pipfile.lock in the working tree
    returncodes,   \* exit status of the git commands run so far
    base_deps, head_deps,
    changed_deps, added_deps, removed_deps,
    msg,
    comments,      \* issue comments of the pull request, in listing order
    calls,         \* comment API operations performed by this run
    exitCode       \* process exit status, -1 while running

vars == <<pc, revs, tree, returncodes, base_deps, head_deps,
          changed_deps, added_deps, removed_deps, msg, comments, calls, exitCode>>

locals == <<base_deps, head_deps, changed_deps, added_deps, removed_deps, msg>>

\* ------------------------------------------------------------- inputs
DepVersions == {"1.0.0", "2.0.0"}
DepMaps == UNION {[S -> DepVersions] : S \in SUBSET Names}
ChangedMaps == UNION {[S -> [base : DepVersions, head : DepVersions]] : S \in SUBSET Names}

\* Lock files of the revisions a run is started on.
RunFiles ==
    { MissingFile,
      JsonFile([default |-> EmptyDict, develop |-> EmptyDict]),
      JsonFile([default |-> [foo |-> [version |-> "==1.0.0"]], develop |-> EmptyDict]),
      JsonFile([default |-> [foo |-> [version |-> "2.0.0"]],
                develop |-> [bar |-> [ref |-> "0123456789abcdef"]]]) }

\* Comment lists a pull request can hold before the first run.
InitBodies == {"LGTM!", Marker \o "\nstale"}
CommentLists(bodies) ==
    UNION {{[i \in 1..n |-> [id |-> i, body |-> b[i]]] : b \in [1..n -> bodies]} :
              n \in 0..MaxInitComments}

LocalsInit ==
    /\ base_deps = EmptyDict /\ head_deps = EmptyDict
    /\ changed_deps = EmptyDict /\ added_deps = EmptyDict /\ removed_deps = EmptyDict
    /\ msg = ""

ProcessInit == returncodes = EmptyDict /\ calls = {} /\ exitCode = -1

NoRevs == [base |-> MissingFile, head |-> MissingFile]

\* ------------------------------------------------------------- run()
Raise == pc' = "aborted" /\ exitCode' = 1

\* subprocess.run without check=True: a non-zero exit status is returned in
\* the CompletedProcess and dropped; only a failure to start git raises.
GitOutcomes == {"exit0", "exit128", "oserror"}
Code(outcome) == IF outcome = "exit0" THEN 0 ELSE 128

\* main.py:126-127
Fetch ==
    /\ pc = "fetch"
    /\ \E o \in GitOutcomes :
         IF o = "oserror" THEN Raise /\ UNCHANGED returncodes
         ELSE /\ pc' = "checkout_base"
              /\ returncodes' = [s \in {"fetch"} |-> Code(o)]
              /\ UNCHANGED exitCode
    /\ UNCHANGED <<revs, tree, locals, comments, calls>>

\* git checkout <sha>: on success the working tree holds that revision's
\* file, on failure it is left as it was.
Checkout(step, rev, next) ==
    /\ pc = step
    /\ \E o \in GitOutcomes :
         IF o = "oserror" THEN Raise /\ UNCHANGED <<returncodes, tree>>
         ELSE /\ pc' = next
              /\ returncodes' = [s \in DOMAIN returncodes \cup {step} |->
                                    IF s = step THEN Code(o) ELSE returncodes[s]]
              /\ tree' = IF o = "exit0" THEN rev ELSE tree
              /\ UNCHANGED exitCode
    /\ UNCHANGED <<revs, locals, comments, calls>>

\* main.py:130-132
CheckoutBase == Checkout("checkout_base", revs.base, "parse_base")

\* main.py:133
ParseBase ==
    /\ pc = "parse_base"
    /\ IF ParseRaises(tree)
       THEN Raise /\ UNCHANGED base_deps
       ELSE pc' = "checkout_head" /\ base_deps' = parse_pipfile_lock(tree) /\ UNCHANGED exitCode
    /\ UNCHANGED <<revs, tree, returncodes, head_deps, changed_deps, added_deps,
                   removed_deps, msg, comments, calls>>

\* main.py:136-138
CheckoutHead == Checkout("checkout_head", revs.head, "parse_head")

\* main.py:139
ParseHead ==
    /\ pc = "parse_head"
    /\ IF ParseRaises(tree)
       THEN Raise /\ UNCHANGED head_deps
       ELSE pc' = "compare" /\ head_deps' = parse_pipfile_lock(tree) /\ UNCHANGED exitCode
    /\ UNCHANGED <<revs, tree, returncodes, base_deps, changed_deps, added_deps,
                   removed_deps, msg, comments, calls>>

\* Mutant: the equality test never succeeds (identity instead of equality).
Compare_identity ==
    /\ pc = "compare"
    /\ pc' = "diff"
    /\ UNCHANGED <<revs, tree, returncodes, locals, comments, calls, exitCode>>

\* main.py:141-143
Compare ==
    /\ pc = "compare"
    /\ IF head_deps = base_deps
       THEN pc' = "done" /\ exitCode' = 0
       ELSE pc' = "diff" /\ UNCHANGED exitCode
    /\ UNCHANGED <<revs, tree, returncodes, locals, comments, calls>>

\* main.py:146-148
Diff ==
    /\ pc = "diff"
    /\ changed_deps' = get_changed_deps(base_deps, head_deps)
    /\ added_deps' = get_added_deps(base_deps, head_deps)
    /\ removed_deps' = get_removed_deps(base_deps, head_deps)
    /\ pc' = "render"
    /\ UNCHANGED <<revs, tree, returncodes, base_deps, head_deps, msg, comments, calls, exitCode>>

\* main.py:151
Render ==
    /\ pc = "render"
    /\ msg' = generate_message(changed_deps, added_deps, removed_deps)
    /\ pc' = "create_comment"
    /\ UNCHANGED <<revs, tree, returncodes, base_deps, head_deps, changed_deps,
                   added_deps, removed_deps, comments, calls, exitCode>>

\* main.py:152 with 92-120.  The API can fail at the lookup of the repository
\* and pull request (104-106) or at the write (118, 120); nothing is caught.
ApiOutcomes == {"ok", "lookup_error", "write_error"}
CreateComment ==
    /\ pc = "create_comment"
    /\ \E o \in ApiOutcomes :
         LET write == IF ExistingIssueId(comments) # 0 THEN "edit" ELSE "create" IN
         CASE o = "lookup_error" ->
                Raise /\ calls' = {"get_pull"} /\ UNCHANGED comments
           [] o = "write_error" ->
                Raise /\ calls' = {"get_pull", "list", write} /\ UNCHANGED comments
           [] OTHER ->
                /\ comments' = Upsert(comments, msg)
                /\ calls' = {"get_pull", "list", write}
                /\ pc' = "done" /\ exitCode' = 0
    /\ UNCHANGED <<revs, tree, returncodes, locals>>

\* The CI host starts the next run once the previous process has exited: new
\* revisions, a new checkout, fresh process state; the comments stay.
NewRun ==
    /\ pc \in {"done", "aborted"}
    /\ pc' = "fetch"
    /\ revs' \in [base : RunFiles, head : RunFiles]
    /\ tree' \in RunFiles
    /\ returncodes' = EmptyDict /\ calls' = {} /\ exitCode' = -1
    /\ base_deps' = EmptyDict /\ head_deps' = EmptyDict
    /\ changed_deps' = EmptyDict /\ added_deps' = EmptyDict /\ removed_deps' = EmptyDict
    /\ msg' = ""
    /\ UNCHANGED comments

\* ------------------------------------------------------- specifications
\* Sequential runs on a pull request with any starting comment list.
Init ==
    /\ pc = "fetch"
    /\ revs \in [base : RunFiles, head : RunFiles]
    /\ tree \in RunFiles
    /\ comments \in CommentLists(InitBodies)
    /\ LocalsInit /\ ProcessInit

Next ==
    \/ Fetch \/ CheckoutBase \/ ParseBase \/ CheckoutHead \/ ParseHead
    \/ Compare \/ Diff \/ Render \/ CreateComment \/ NewRun

Spec == Init /\ [][Next]_vars

\* Sequential runs on a pull request that holds no marked comment yet.
InitFresh ==
    /\ pc = "fetch"
    /\ revs \in [base : RunFiles, head : RunFiles]
    /\ tree \in RunFiles
    /\ comments \in CommentLists({"LGTM!"})
    /\ LocalsInit /\ ProcessInit

SpecFresh == InitFresh /\ [][Next]_vars

\* parse_pipfile_lock applied to every lock file of the bounded universe.
InitParse ==
    /\ pc = "parse_base"
    /\ tree \in LockFiles
    /\ revs = NoRevs /\ comments = <<>>
    /\ LocalsInit /\ ProcessInit

NextParse == ParseBase

SpecParse == InitParse /\ [][NextParse]_vars

\* Lines 141-151 of run() applied to every pair of dependency mappings.
InitDiff ==
    /\ pc = "compare"
    /\ base_deps \in DepMaps /\ head_deps \in DepMaps
    /\ changed_deps = EmptyDict /\ added_deps = EmptyDict /\ removed_deps = EmptyDict
    /\ msg = ""
    /\ revs = NoRevs /\ tree = MissingFile /\ comments = <<>>
    /\ ProcessInit

NextDiff == Compare \/ Diff \/ Render

SpecDiff == InitDiff /\ [][NextDiff]_vars

\* generate_message applied to every (changed, added, removed) triple.
InitRender ==
    /\ pc = "render"
    /\ changed_deps \in ChangedMaps /\ added_deps \in DepMaps /\ removed_deps \in DepMaps
    /\ base_deps = EmptyDict /\ head_deps = EmptyDict
    /\ msg = ""
    /\ revs = NoRevs /\ tree = MissingFile /\ comments = <<>>
    /\ ProcessInit

NextRender == Render

SpecRender == InitRender /\ [][NextRender]_vars

\* ----------------------------------------------------------- properties
\* Python's msg.split('\n')
RECURSIVE SplitLines(_)
SplitLines(s) ==
    IF \E i \in 1..Len(s) : SubSeq(s, i, i) = "\n"
    THEN LET i == CHOOSE k \in 1..Len(s) :
                    /\ SubSeq(s, k, k) = "\n"
                    /\ \A j \in 1..(k - 1) : SubSeq(s, j, j) # "\n"
         IN  <<SubSeq(s, 1, i - 1)>> \o SplitLines(SubSeq(s, i + 1, Len(s)))
    ELSE <<s>>

\* Positions, in the list of lines l, of the line **title** followed by the
\* opening fence.
SectionAt(l, title) ==
    {i \in 1..(Len(l) - 1) : l[i] = "**" \o title \o "**" /\ l[i + 1] = "'''"}

MarkedAt(cs) == {i \in 1..Len(cs) : StartsWith(cs[i].body, Marker)}

AnyStepFailed == \E s \in DOMAIN returncodes : returncodes[s] # 0

\* C1: a run in which the git fetch or a git checkout failed never reaches
\* create_comment, makes no comment API call and never exits successfully.
C1_FailureIsFatal ==
    AnyStepFailed =>
        /\ pc \notin {"create_comment", "done"}
        /\ calls = {}
        /\ exitCode # 0

\* C2: when the two parsed mappings are equal, run() ends with exit status 0
\* at the comparison, with no message generated, no comment API call and the
\* comment list as it was; and no statement of run() before create_comment
\* touches the comments or calls the comment API.
C2_EqualDepsShortCircuit ==
    [][ /\ (pc = "compare" /\ head_deps = base_deps) =>
              /\ pc' = "done" /\ exitCode' = 0
              /\ msg' = "" /\ calls' = {} /\ comments' = comments
        /\ (pc # "create_comment") => (comments' = comments /\ calls' = {})
      ]_vars

C2_Witness ==
    /\ pc = "done" /\ head_deps = base_deps /\ DOMAIN base_deps # {}
    /\ exitCode = 0 /\ calls = {} /\ msg = "" /\ Len(comments) > 0

\* C3: from a pull request without a marked comment, sequential runs leave at
\* most one marked comment; a run that posted leaves exactly one, holding its
\* message, next to the comments the pull request started with; and a run
\* about to post with a marked comment present finds that comment.
C3_AtMostOneMarkedComment ==
    /\ Cardinality(MarkedAt(comments)) <= 1
    /\ (pc = "done" /\ calls # {}) =>
          /\ \E i \in 1..Len(comments) :
                MarkedAt(comments) = {i} /\ comments[i].body = msg
          /\ Len(comments) <= MaxInitComments + 1
    /\ (pc = "create_comment" /\ MarkedAt(comments) # {}) =>
          ExistingIssueId(comments) = comments[CHOOSE i \in MarkedAt(comments) : TRUE].id

C3_Witness ==
    /\ pc = "done" /\ "edit" \in calls
    /\ Cardinality(MarkedAt(comments)) = 1
    /\ \E i \in MarkedAt(comments) : comments[i].body = msg /\ i = Len(comments) /\ i > 1

\* C4: create_comment on a list holding a marked comment edits exactly the
\* first marked one: same identifier, body == message, same list length, every
\* other comment (later marked ones too) unchanged.
C4_EditsFirstMarkedOnly ==
    [][ (pc = "create_comment" /\ pc' = "done" /\ MarkedAt(comments) # {}) =>
          LET first == CHOOSE i \in MarkedAt(comments) : \A j \in MarkedAt(comments) : i <= j
          IN  /\ Len(comments') = Len(comments)
              /\ comments'[first] = [id |-> comments[first].id, body |-> msg]
              /\ \A i \in 1..Len(comments) : i # first => comments'[i] = comments[i]
              /\ "edit" \in calls' /\ "create" \notin calls'
      ]_vars

C4_Witness ==
    /\ pc = "done" /\ "edit" \in calls
    /\ \E i, j \in MarkedAt(comments) :
          /\ i < j
          /\ comments[i].body = msg
          /\ comments[j].body = Marker \o "\nstale"

\* C5: get_added_deps(base, head) equals get_removed_deps(head, base); added
\* is exactly the head entries whose key is absent from base, removed exactly
\* the base entries whose key is absent from head, with that side's version.
C5_AddedRemovedSymmetric ==
    LET a == get_added_deps(base_deps, head_deps)
        r == get_removed_deps(base_deps, head_deps)
    IN  /\ a = get_removed_deps(head_deps, base_deps)
        /\ r = get_added_deps(head_deps, base_deps)
        /\ DOMAIN a = DOMAIN head_deps \ DOMAIN base_deps
        /\ \A k \in DOMAIN a : a[k] = head_deps[k]
        /\ DOMAIN r = DOMAIN base_deps \ DOMAIN head_deps
        /\ \A k \in DOMAIN r : r[k] = base_deps[k]
        /\ pc \in {"render", "create_comment"} => (added_deps = a /\ removed_deps = r)

C5_Witness ==
    /\ pc = "render"
    /\ DOMAIN added_deps # {} /\ DOMAIN base_deps # {}
    /\ added_deps = get_removed_deps(head_deps, base_deps)
    /\ added_deps # head_deps

\* C6: get_changed_deps(base, head) has as keys exactly the names in both
\* mappings whose version strings differ, each mapped to {base, head}; it is
\* empty when base is empty.
C6_ChangedExact ==
    LET c == get_changed_deps(base_deps, head_deps)
    IN  /\ DOMAIN c = {k \in DOMAIN base_deps \cap DOMAIN head_deps : base_deps[k] # head_deps[k]}
        /\ \A k \in DOMAIN c : c[k] = [base |-> base_deps[k], head |-> head_deps[k]]
        /\ (DOMAIN base_deps = {}) => (c = EmptyDict)
        /\ pc \in {"render", "create_comment"} => changed_deps = c

C6_Witness ==
    /\ pc = "render"
    /\ DOMAIN changed_deps # {}
    /\ \E k \in DOMAIN base_deps \cap DOMAIN head_deps : k \notin DOMAIN changed_deps

\* C7: the message starts with the marker line and holds the Changed, Added
\* and Removed sections exactly for the non-empty mappings, in that order;
\* added = {foo: 1.0.0} alone yields only an Added section with foo==1.0.0.
C7_MessageSections ==
    pc = "create_comment" =>
        LET l == SplitLines(msg)
            c == SectionAt(l, "Changed")
            a == SectionAt(l, "Added")
            r == SectionAt(l, "Removed")
        IN  /\ StartsWith(msg, "<!-- pipfile-diff -->\n")
            /\ Cardinality(c) = (IF DOMAIN changed_deps # {} THEN 1 ELSE 0)
            /\ Cardinality(a) = (IF DOMAIN added_deps # {} THEN 1 ELSE 0)
            /\ Cardinality(r) = (IF DOMAIN removed_deps # {} THEN 1 ELSE 0)
            /\ \A i \in c : \A j \in a \cup r : i < j
            /\ \A i \in a : \A j \in r : i < j
            /\ (/\ DOMAIN changed_deps = {} /\ DOMAIN removed_deps = {}
                /\ added_deps = [k \in {"foo"} |-> "1.0.0"]) =>
                  msg = "<!-- pipfile-diff -->\n\nDependency changes from 'Pipfile.lock':\n\n"
                        \o "**Added**\n'''\nfoo==1.0.0\n'''\n"

C7_Witness ==
    /\ pc = "create_comment"
    /\ DOMAIN changed_deps # {} /\ DOMAIN added_deps = {} /\ DOMAIN removed_deps # {}
    /\ LET l == SplitLines(msg) IN
          /\ SectionAt(l, "Changed") # {} /\ SectionAt(l, "Removed") # {}
          /\ SectionAt(l, "Added") = {}

\* The descriptor the lock file format prescribes for an entry with a
\* version or a ref.
Descriptor(meta) ==
    IF "version" \in DOMAIN meta
    THEN LET v == meta["version"] IN
         IF Len(v) >= 2 /\ SubSeq(v, 1, 2) = "==" THEN SubSeq(v, 3, Len(v)) ELSE v
    ELSE LET r == meta["ref"] IN
         IF Len(r) <= 7 THEN r ELSE SubSeq(r, 1, 7)

\* C8: an entry with a version (also with a ref besides) yields the version
\* less one leading '=='; an entry with a ref only yields the ref's first 7
\* characters; an entry with neither makes the parse fail.
C8_EntryDescriptor ==
    (pc # "parse_base" /\ tree.kind = "json" /\ DOMAIN tree.data = {"default", "develop"}) =>
        LET def == tree.data["default"]
            dev == tree.data["develop"]
            entries == {def[n] : n \in DOMAIN def} \cup {dev[n] : n \in DOMAIN dev}
        IN  /\ (pc = "aborted") <=> (\E m \in entries : DOMAIN m \cap {"version", "ref"} = {})
            /\ pc = "checkout_head" =>
                 /\ \A n \in DOMAIN dev : base_deps[n] = Descriptor(dev[n])
                 /\ \A n \in DOMAIN def \ DOMAIN dev : base_deps[n] = Descriptor(def[n])
            /\ pc = "aborted" => (base_deps = EmptyDict /\ exitCode # 0)

C8_Witness ==
    /\ pc = "checkout_head"
    /\ \E n \in DOMAIN base_deps :
          /\ n \in DOMAIN tree.data["default"] /\ n \notin DOMAIN tree.data["develop"]
          /\ tree.data["default"][n] = [version |-> "====3"]
          /\ base_deps[n] = "==3"
    /\ \E n \in DOMAIN base_deps :
          /\ n \in DOMAIN tree.data["develop"]
          /\ tree.data["develop"][n] = [ref |-> "0123456789abcdef"]
          /\ base_deps[n] = "0123456"

\* C9: the parsed mapping's keys are the union of the names of the default
\* and develop groups, and a name in both groups gets the develop entry's
\* descriptor.
C9_DevelopOverwritesDefault ==
    (pc = "checkout_head") =>
        LET def == tree.data["default"]
            dev == tree.data["develop"]
        IN  /\ DOMAIN base_deps = DOMAIN def \cup DOMAIN dev
            /\ \A n \in DOMAIN def \cap DOMAIN dev : base_deps[n] = Descriptor(dev[n])

C9_Witness ==
    /\ pc = "checkout_head"
    /\ \E n \in DOMAIN tree.data["default"] \cap DOMAIN tree.data["develop"] :
          /\ Descriptor(tree.data["default"][n]) # Descriptor(tree.data["develop"][n])
          /\ base_deps[n] = Descriptor(tree.data["develop"][n])
    /\ \E n \in DOMAIN tree.data["default"] : n \notin DOMAIN tree.data["develop"]

\* C10: the key sets of changed, added and removed are pairwise disjoint and
\* together are the names on which base and head differ; past the equality
\* check one of the three is non-empty and the message has a section.
C10_DiffPartition ==
    LET c == DOMAIN get_changed_deps(base_deps, head_deps)
        a == DOMAIN get_added_deps(base_deps, head_deps)
        r == DOMAIN get_removed_deps(base_deps, head_deps)
        differ == {k \in DOMAIN base_deps \cup DOMAIN head_deps :
                      \/ k \notin DOMAIN base_deps
                      \/ k \notin DOMAIN head_deps
                      \/ base_deps[k] # head_deps[k]}
    IN  /\ c \cap a = {} /\ c \cap r = {} /\ a \cap r = {}
        /\ c \cup a \cup r = differ
        /\ pc \in {"diff", "render", "create_comment"} => differ # {}
        /\ pc \in {"render", "create_comment"} =>
             /\ DOMAIN changed_deps = c /\ DOMAIN added_deps = a /\ DOMAIN removed_deps = r
             /\ DOMAIN changed_deps \cup DOMAIN added_deps \cup DOMAIN removed_deps # {}
        /\ pc = "create_comment" =>
             LET l == SplitLines(msg) IN
             SectionAt(l, "Changed") \cup SectionAt(l, "Added")
                \cup SectionAt(l, "Removed") # {}

C10_Witness ==
    /\ pc = "create_comment"
    /\ DOMAIN changed_deps # {} /\ DOMAIN added_deps # {}
    /\ DOMAIN removed_deps = {}
    /\ LET l == SplitLines(msg) IN
          SectionAt(l, "Changed") # {} /\ SectionAt(l, "Added") # {}
=============================================================================
